---- MODULE Spec2Model ----
(***************************************************************************)
(* Model of the Availity referral monitor: the polling cycle               *)
(* (checkForNewReferrals), the session it drives (setupBot, closeBrowser,  *)
(* loginToAvaility), the UI-derived extraction path, the store             *)
(* collections and the two notification channels.                          *)
(*                                                                         *)
(* Every await of the source is a point where another invocation may run,  *)
(* so each invocation of checkForNewReferrals is a small process whose pc  *)
(* names the await it is suspended at.                                     *)
(***************************************************************************)
EXTENDS Integers, Sequences, FiniteSets, TLC

\* ---- bounds of the model ------------------------------------------------
MaxTime == 2          \* the clock runs 0..MaxTime
MaxPortal == 2        \* referrals the portal ever lists
MaxDocs == 2          \* capacity of the Referral collection (create fails beyond)
MaxBrowsers == 2      \* browser processes that can be alive at once
MaxCount == 2         \* per-record message counters saturate here
MaxFaults == 1        \* external failures in a run in which failures are finite
MaxRequests == 2      \* POST /start-bot requests the server receives
MaxEnvLen == 2        \* length of the value of an environment variable
MaxUrlLen == 2        \* words of a URL
MaxAttempts == 2      \* calls of loginToAvaility in a row
MaxRetries == 4       \* the retries argument of retryOperation runs 0..MaxRetries

\* Invocations of checkForNewReferrals that can be in flight together.
Slots == {1, 2}

\* ---- data the portal serves ---------------------------------------------
Members == {"A1"}
NoBrowser == 0
NoDoc == 0
\* The texts the portal shows for a referral of member m requested at t: the
\* member's id and name, and the referral's own number (models/referrals.ts
\* keeps memberID and referralNum apart).
MemberId(m) == <<"member", m>>
MemberName(m) == <<"name", m>>
ReferralNum(m, t) == <<"referral", m, t>>

VARIABLES
  now,            \* wall clock (new Date())
  lastCheckTime,  \* bot.ts:18
  browser,        \* bot.ts:16, NoBrowser = null, else the id of a browser process
  page,           \* bot.ts:17, NoBrowser = null, else the browser the page belongs to
  live,           \* browser processes launched and not closed
  authed,         \* pages on which the last loginToAvaility got through its login
  portal,         \* referrals the portal lists (INCOMING tab)
  referrals,      \* the Referral collection; _id = index
  notifications,  \* the Notification collection: referralId of each entry
  emailsSent,     \* per logical record: "New Referral Notification" emails sent
  smsSent,        \* per logical record: SMS sent about it
  mon,            \* startReferralMonitoring: "off", "initial", "armed"
  pc,             \* per invocation: the await it is suspended at, or how it ended
  members,        \* per invocation: UI-extracted members still to save
  newReferrals,   \* per invocation: candidates / new referrals still to process
  currentTime,    \* per invocation: bot.ts:1303
  saved,          \* per invocation: _id of newReferral / savedReferral
  lb,             \* per invocation: browser a pending launch/newPage/close acts on
  startedAt,      \* per invocation: the clock when the invocation began
  kind,           \* per invocation: what runs or ran: "cycle", "http", "startup"; "none" at first
  made,           \* per invocation: the paths ("ui", "api") on which it created a document
  res,            \* per invocation: statuses sent with res.status().json() (app.ts:26-32)
  app,            \* app.ts:37-47: "new", or "started" once setupBot has been called
  requests,       \* POST /start-bot requests received so far
  env,            \* process.env: the variables email.ts and sms.ts read
  sent,           \* what the last direct call of sendEmail / sendSMS did
  lg,             \* one run of loginToAvaility past the submit: where it is, what it met
  rt,             \* one call of retryOperation: its argument, where it is, what the operation did
  limited,        \* whether the external failures of the run are counted out
  faults          \* if limited: external failures still to come

vars == <<now, lastCheckTime, browser, page, live, authed, portal, referrals,
          notifications, emailsSent, smsSent, mon, pc, members, newReferrals,
          currentTime, saved, lb, startedAt, kind, made, res, app, requests,
          env, sent, lg, rt, limited, faults>>

session == <<browser, page, live, authed>>
store == <<referrals, notifications>>
channels == <<emailsSent, smsSent>>
entry == <<startedAt, kind, made, res>>
locals == <<members, newReferrals, currentTime, saved, lb, entry>>
fixed == <<limited, env>>
apart == <<fixed, rt>>
aside == <<apart, sent, lg, app, requests>>
budget == <<aside, faults>>

Keys == Members \X (0..MaxTime)

\* How an invocation can have ended.
Ended == {"idle", "ok", "e_login", "e_auth", "e_fetch", "e_store", "e_email", "e_sms",
          "up", "r200", "r500"}
InFlight(c) == pc[c] \notin Ended

\* ---- pure helpers -------------------------------------------------------

\* The portal's listing order: oldest request first.
RECURSIVE ListOf(_)
ListOf(S) ==
  IF S = {} THEN <<>>
  ELSE LET r == CHOOSE x \in S : \A y \in S : x.requestOn <= y.requestOn
       IN  <<r>> \o ListOf(S \ {r})

\* One element of response.data.referrals (bot.ts:28-38).
ApiReferral(r) ==
  [memberID |-> MemberId(r.memberID), memberName |-> MemberName(r.memberID),
   requestOn |-> r.requestOn]

\* One element of the list extractMemberInformation builds (bot.ts:1126-1133):
\* the referral number stands in for the member id.
UiMember(r) ==
  [memberID |-> ReferralNum(r.memberID, r.requestOn),
   memberName |-> MemberName(r.memberID), requestDate |-> r.requestOn]

MapSeq(F(_), s) == [i \in 1..Len(s) |-> F(s[i])]

\* What the filter does not do: take a referral requested at the watermark.
IsNewSinceInclusive(referral, t) == referral.requestOn >= t

\* new Date(referral.requestOn) > lastCheckTime (bot.ts:1308-1309).
IsNewSince(referral, t) == referral.requestOn > t

FilterNew(s, t) == SelectSeq(s, LAMBDA r : IsNewSince(r, t))

\* Referral.findOne({memberID, requestOn}) finds a document (bot.ts:1321-1324).
ExistsByKey(docs, referral) ==
  \E i \in 1..Len(docs) :
    /\ docs[i].memberID = referral.memberID
    /\ docs[i].requestOn = referral.requestOn

\* Referral.findOne({memberID, memberName}) finds a document (bot.ts:1210-1213).
ExistsByName(docs, member) ==
  \E i \in 1..Len(docs) :
    /\ docs[i].memberID = member.memberID
    /\ docs[i].memberName = member.memberName

\* The logical record (the portal's referral: member and request time) that a
\* message or a document is about.
SubjectOfReferral(referral) == <<referral.memberName[2], referral.requestOn>>
SubjectOfMember(member) == <<member.memberName[2], member.requestDate>>
SubjectOfDoc(doc) == <<doc.memberName[2], doc.requestOn>>

\* ---- process.env and what email.ts and sms.ts make of it ----------------
\* The characters of a value: a character of an address, the separator, a blank.
Chars == {"a", ",", " "}
Strings == UNION {[1..n -> Chars] : n \in 0..MaxEnvLen}

\* An environment variable is undefined or holds a string.
Undefined == [set |-> FALSE, val |-> <<>>]
Defined(str) == [set |-> TRUE, val |-> str]

\* JavaScript truthiness of process.env.X: defined and not "".
Truthy(v) == v.set /\ v.val # <<>>

\* String.prototype.split(","): "" gives [""], "a,," gives ["a", "", ""].
RECURSIVE Split(_)
Split(str) ==
  IF \A i \in 1..Len(str) : str[i] # ","
  THEN <<str>>
  ELSE LET i == CHOOSE x \in 1..Len(str) :
                  str[x] = "," /\ \A y \in 1..(x - 1) : str[y] # ","
       IN  <<SubSeq(str, 1, i - 1)>> \o Split(SubSeq(str, i + 1, Len(str)))

\* String.prototype.trim().
RECURSIVE Trim(_)
Trim(str) ==
  IF str = <<>> THEN str
  ELSE IF Head(str) = " " THEN Trim(Tail(str))
  ELSE IF str[Len(str)] = " " THEN Trim(SubSeq(str, 1, Len(str) - 1))
  ELSE str

\* email.ts:54: process.env.EMAIL_RECIPIENTS?.split(",").map(trim) || [].
EmailRecipients(e) ==
  IF e.EMAIL_RECIPIENTS.set
  THEN LET parts == Split(e.EMAIL_RECIPIENTS.val)
       IN  [i \in 1..Len(parts) |-> Trim(parts[i])]
  ELSE <<>>

\* sms.ts:9: process.env.SMS_RECIPIENTS?.split(",") || [].
ToNumbers(e) ==
  IF e.SMS_RECIPIENTS.set THEN Split(e.SMS_RECIPIENTS.val) ELSE <<>>

\* sendEmail (email.ts:49-75): "noop" when it returns at email.ts:58, else
\* "transport": transporter.sendMail is called.
SendEmail(e) ==
  IF Len(EmailRecipients(e)) = 0 THEN "noop" ELSE "transport"

\* sendSMS (sms.ts:11-48): "noop" when it returns at sms.ts:17 or sms.ts:22,
\* else "transport": client.messages.create is called.
SendSMS(e) ==
  IF ~Truthy(e.TWILIO_SID) \/ ~Truthy(e.TWILIO_AUTH_TOKEN) \/ ~Truthy(e.TWILIO_PHONE_NUMBER)
  THEN "noop"
  ELSE IF Len(ToNumbers(e)) = 0 THEN "noop" ELSE "transport"

\* The environments the model draws from, and one in which both channels
\* are configured.
Credentials == {Undefined, Defined(<<>>), Defined(<<"a">>)}
Recipients == {Undefined} \cup {Defined(str) : str \in Strings}
Envs ==
  [EMAIL_RECIPIENTS : Recipients, EMAIL_USER : Credentials, EMAIL_PASS : Credentials,
   SMS_RECIPIENTS : Recipients, TWILIO_SID : Credentials,
   TWILIO_AUTH_TOKEN : Credentials, TWILIO_PHONE_NUMBER : Credentials]
Configured ==
  [EMAIL_RECIPIENTS |-> Defined(<<"a">>), EMAIL_USER |-> Defined(<<"a">>),
   EMAIL_PASS |-> Defined(<<"a">>), SMS_RECIPIENTS |-> Defined(<<"a">>),
   TWILIO_SID |-> Defined(<<"a">>), TWILIO_AUTH_TOKEN |-> Defined(<<"a">>),
   TWILIO_PHONE_NUMBER |-> Defined(<<"a">>)]

Bump(counter, k) ==
  [counter EXCEPT ![k] = IF @ < MaxCount THEN @ + 1 ELSE @]

FreeBrowsers == (1..MaxBrowsers) \ live

\* ---- what loginToAvaility meets on the page after the submit ------------
\* The words a URL is made of, as far as String.includes can tell them apart.
Words == {"login", "authenticate", "home"}
Urls == UNION {[1..n -> Words] : n \in 0..MaxUrlLen}

\* currentUrl.includes(w)
Includes(url, w) == \E i \in 1..Len(url) : url[i] = w

\* What a strategy meets: its element is there and the click resolves, no
\* element is there, or one of its calls throws.
Found == {"ok", "absent", "throws"}

\* The approaches of handle2FA to the authenticator option, in the order of
\* the code (bot.ts:316, 333, 352).
Strategies == <<"direct", "label", "first">>

\* What the page can show after the code is submitted; the texts of an
\* error banner.
Marks == {"dashboard", "cookie"}
Texts == {"invalid code", "locked"}
NoBanner == "none"

\* The errors loginToAvaility and handle2FA throw.
StillOnLogin == <<"Login failed - still on login page">>
SelectionFailed == <<"Could not select authenticator app option using any method">>
VerificationFailed == <<"2FA verification failed - no dashboard elements found">>
Rejected(text) == <<"2FA resulted in error: ", text>>
PageError == <<"page">>
NavigationFailed == <<"navigation">>
NoError == <<>>

\* The steps of navigateToCareCentral, in the order of the code: the Care
\* Central tile (bot.ts:652-796), the iframe (bot.ts:799-820), the
\* organization (bot.ts:823-872), the provider and Next (bot.ts:876-938),
\* the Referrals button (bot.ts:944-1011).
NavSteps == <<"menu", "iframe", "organization", "provider", "referrals">>

\* The run has submitted the credentials (bot.ts:222) and has met nothing
\* yet. attempt counts the calls of loginToAvaility, step is the step of
\* the navigation that runs (0: none), confirmed the steps that the latest
\* navigation got through.
Submitted ==
  [pc |-> "submitted", probed |-> FALSE, wait |-> FALSE, twofa |-> FALSE,
   logged |-> FALSE, url |-> <<>>, tried |-> <<>>, shows |-> {},
   banner |-> NoBanner, err |-> NoError, attempt |-> 1, step |-> 0, confirmed |-> 0]

\* ---- initial state: the modules are loaded, nothing has run -------------
\* retryOperation before any call of it (nothing in the repository calls it).
\* retries is its argument, i the loop counter, calls what each invocation
\* of the operation came to, in order ("ok" or the error it rejected with),
\* err the error the call has thrown.
NotCalled == [pc |-> "idle", retries |-> 0, i |-> 0, calls |-> <<>>, err |-> NoError]

InitWith(l, f, e) ==
  /\ now = 0
  /\ lastCheckTime = 0
  /\ browser = NoBrowser
  /\ page = NoBrowser
  /\ live = {}
  /\ authed = {}
  /\ portal = {}
  /\ referrals = <<>>
  /\ notifications = <<>>
  /\ emailsSent = [k \in Keys |-> 0]
  /\ smsSent = [k \in Keys |-> 0]
  /\ mon = "off"
  /\ pc = [c \in Slots |-> "idle"]
  /\ members = [c \in Slots |-> <<>>]
  /\ newReferrals = [c \in Slots |-> <<>>]
  /\ currentTime = [c \in Slots |-> 0]
  /\ saved = [c \in Slots |-> NoDoc]
  /\ lb = [c \in Slots |-> NoBrowser]
  /\ startedAt = [c \in Slots |-> 0]
  /\ kind = [c \in Slots |-> "none"]
  /\ made = [c \in Slots |-> {}]
  /\ res = [c \in Slots |-> <<>>]
  /\ app = "new"
  /\ requests = 0
  /\ env = e
  /\ sent = "nothing"
  /\ lg = Submitted
  /\ rt = NotCalled
  /\ limited = l
  /\ faults = f

Init == InitWith(FALSE, 0, Configured)

\* ---- the environment ----------------------------------------------------
Tick ==
  /\ now < MaxTime
  /\ now' = now + 1
  /\ UNCHANGED <<lastCheckTime, session, portal, store, channels, mon, pc, locals, budget>>

\* The portal lists a referral created at this moment.
AddReferral ==
  /\ Cardinality(portal) < MaxPortal
  /\ \E m \in Members :
       /\ \A r \in portal : ~(r.memberID = m /\ r.requestOn = now)
       /\ portal' = portal \cup {[memberID |-> m, requestOn |-> now]}
  /\ UNCHANGED <<now, lastCheckTime, session, store, channels, mon, pc, locals, budget>>

\* An external call fails: because it must (forced: what it needs is not
\* there), or because the environment makes it fail, while failures remain.
Fault(forced) ==
  /\ forced \/ ~limited \/ faults > 0
  /\ faults' = IF ~forced /\ limited THEN faults - 1 ELSE faults

\* ---- ends of an invocation ----------------------------------------------
\* The invocation throws (or returns): its locals are gone.
Clear(c) ==
  /\ members' = [members EXCEPT ![c] = <<>>]
  /\ newReferrals' = [newReferrals EXCEPT ![c] = <<>>]
  /\ currentTime' = [currentTime EXCEPT ![c] = 0]
  /\ saved' = [saved EXCEPT ![c] = NoDoc]
  /\ lb' = [lb EXCEPT ![c] = NoBrowser]
  /\ startedAt' = [startedAt EXCEPT ![c] = 0]
  /\ made' = [made EXCEPT ![c] = {}]

\* What the catch does not do: a rethrow that stores the clock in the
\* watermark on the way out.
ThrowAdvancing(c, how) ==
  /\ pc' = [pc EXCEPT ![c] = IF kind[c] = "http" THEN "http_err" ELSE how]
  /\ Clear(c)
  /\ lastCheckTime' = now
  /\ UNCHANGED <<kind, res>>

\* checkForNewReferrals rethrows the error (bot.ts:1381-1397). The watermark
\* is not touched on this path. In the /start-bot handler the error of
\* setupBot or loginToAvaility arrives in the catch of app.ts:30.
Throw(c, how) ==
  /\ pc' = [pc EXCEPT ![c] = IF kind[c] = "http" THEN "http_err" ELSE how]
  /\ Clear(c)
  /\ UNCHANGED <<kind, res, lastCheckTime>>

\* Entry of checkForNewReferrals (bot.ts:1256-1261) and of loginToAvaility
\* (bot.ts:201-212), which run on to the first await: puppeteer.launch if
\* browser or page is missing, else the opening of the login page.
EnterLogin(b, p) == IF b = NoBrowser \/ p = NoBrowser THEN "setup_launch" ELSE "login_page"

Begin(c, t) ==
  /\ pc' = [pc EXCEPT ![c] = EnterLogin(browser, page)]
  /\ startedAt' = [startedAt EXCEPT ![c] = t]
  /\ kind' = [kind EXCEPT ![c] = "cycle"]
  /\ made' = [made EXCEPT ![c] = {}]
  /\ res' = [res EXCEPT ![c] = <<>>]
  /\ UNCHANGED <<members, newReferrals, currentTime, saved, lb>>

\* A call of setupBot on its own: app.ts:45 at start-up ("startup"), app.ts:23
\* in the /start-bot handler ("http"). It runs on to puppeteer.launch whatever
\* browser and page hold (bot.ts:94-96).
BeginSetup(c, k) ==
  /\ pc' = [pc EXCEPT ![c] = "boot_launch"]
  /\ startedAt' = [startedAt EXCEPT ![c] = now]
  /\ kind' = [kind EXCEPT ![c] = k]
  /\ made' = [made EXCEPT ![c] = {}]
  /\ res' = [res EXCEPT ![c] = <<>>]
  /\ UNCHANGED <<members, newReferrals, currentTime, saved, lb>>

\* ---- startReferralMonitoring (bot.ts:1407-1428) -------------------------
FreeSlot == CHOOSE c \in Slots : ~InFlight(c) /\ \A d \in Slots : ~InFlight(d) => c <= d

\* bot.ts:1407-1412: the initial check is started.
StartReferralMonitoring ==
  /\ mon = "off"
  /\ \E c \in Slots : ~InFlight(c)
  /\ mon' = "initial"
  /\ Begin(FreeSlot, now)
  /\ UNCHANGED <<now, lastCheckTime, session, portal, store, channels, budget>>

\* What startReferralMonitoring does not do: let the error of the initial
\* check escape, so that setInterval is reached only after a check that passed.
ArmTimerAfterSuccess ==
  /\ mon = "initial"
  /\ \A c \in Slots : pc[c] \in {"idle", "ok"}
  /\ mon' = "armed"
  /\ UNCHANGED <<now, lastCheckTime, session, portal, store, channels, pc, locals, budget>>

\* What startReferralMonitoring does not do: call setInterval without
\* awaiting the initial check.
ArmTimerAtOnce ==
  /\ mon = "initial"
  /\ mon' = "armed"
  /\ UNCHANGED <<now, lastCheckTime, session, portal, store, channels, pc, locals, budget>>

\* bot.ts:1410-1418: the initial check has settled, with or without an error
\* (the catch of bot.ts:1413 only logs): setInterval is called.
ArmTimer ==
  /\ mon = "initial"
  /\ \A c \in Slots : kind[c] = "cycle" => ~InFlight(c)
  /\ mon' = "armed"
  /\ UNCHANGED <<now, lastCheckTime, session, portal, store, channels, pc, locals, budget>>

\* bot.ts:1418-1427: an interval has elapsed and the callback calls
\* checkForNewReferrals, whatever the earlier invocations are doing. Once the
\* clock has reached MaxTime it stays there, and the model then lets the
\* callback run only after the earlier invocations have ended.
TimerTick ==
  /\ mon = "armed"
  /\ \E c \in Slots : ~InFlight(c)
  /\ \/ /\ now < MaxTime
        /\ now' = now + 1
        /\ Begin(FreeSlot, now + 1)
     \/ /\ now = MaxTime
        /\ \A c \in Slots : ~InFlight(c)
        /\ now' = now
        /\ Begin(FreeSlot, now)
  /\ UNCHANGED <<lastCheckTime, session, portal, store, channels, mon, budget>>

\* ---- setupBot and loginToAvaility ---------------------------------------
\* bot.ts:96-114: puppeteer.launch settles; on success browser is assigned
\* and browser.newPage() is called on it.
SetupLaunch(c) ==
  /\ pc[c] \in {"setup_launch", "boot_launch"}
  /\ \/ /\ FreeBrowsers # {}
        /\ LET b == CHOOSE x \in FreeBrowsers : \A y \in FreeBrowsers : x <= y
           IN  /\ browser' = b
               /\ live' = live \cup {b}
               /\ lb' = [lb EXCEPT ![c] = b]
        /\ pc' = [pc EXCEPT ![c] = IF @ = "setup_launch" THEN "setup_page" ELSE "boot_page"]
        /\ UNCHANGED <<page, authed, lastCheckTime, members, newReferrals,
                       currentTime, saved, entry, faults>>
     \/ /\ Fault(FreeBrowsers = {})
        /\ Throw(c, "e_login")
        /\ UNCHANGED session
  /\ UNCHANGED <<aside, now, portal, store, channels, mon>>

\* Where a setupBot that has returned leads: inside loginToAvaility to the
\* login page (bot.ts:206-212), at start-up to the end (app.ts:45), in the
\* /start-bot handler to the call of loginToAvaility (app.ts:24).
AfterSetup(c, b, p) ==
  IF pc[c] = "setup_page" THEN "login_page"
  ELSE IF kind[c] = "startup" THEN "up"
  ELSE EnterLogin(b, p)

\* bot.ts:114-134: browser.newPage() settles; on success page is assigned
\* and configured. A throw of newPage leaves page as it was, a throw of the
\* configuration calls leaves the new page assigned.
SetupPage(c) ==
  /\ pc[c] \in {"setup_page", "boot_page"}
  /\ \/ /\ lb[c] \in live
        /\ page' = lb[c]
        /\ UNCHANGED <<browser, live, authed>>
        /\ \/ /\ pc' = [pc EXCEPT ![c] = AfterSetup(c, browser, lb[c])]
              /\ IF AfterSetup(c, browser, lb[c]) = "up"
                 THEN Clear(c) /\ UNCHANGED <<kind, res>>
                 ELSE /\ lb' = [lb EXCEPT ![c] = NoBrowser]
                      /\ UNCHANGED <<members, newReferrals, currentTime, saved, entry>>
              /\ UNCHANGED <<lastCheckTime, faults>>
           \/ /\ Fault(FALSE)
              /\ Throw(c, "e_login")
     \/ /\ Fault(lb[c] \notin live)
        /\ Throw(c, "e_login")
        /\ UNCHANGED session
  /\ UNCHANGED <<aside, now, portal, store, channels, mon>>

\* A page of a running browser is there to work with.
PageUsable == page # NoBrowser /\ page \in live

\* bot.ts:206-291: the login page is opened, the credentials submitted, the
\* login status decided and Care Central reached, or one of these throws.
\* Nothing of this succeeds without a page of a running browser.
LoginPage(c) ==
  /\ pc[c] = "login_page"
  /\ \/ /\ PageUsable
        /\ pc' = [pc EXCEPT ![c] = "ui_extract"]
        /\ authed' = authed \cup {page}
        /\ UNCHANGED <<lastCheckTime, locals, faults>>
     \/ /\ Fault(~PageUsable)
        /\ Throw(c, "e_login")
        /\ authed' = authed \ {page}
  /\ UNCHANGED <<aside, now, browser, page, live, portal, store, channels, mon>>

\* ---- the UI-derived path (inside navigateToCareCentral) -----------------
\* loginToAvaility has returned true (bot.ts:293): checkForNewReferrals goes
\* on to the cookies (bot.ts:1262-1269), the /start-bot handler to its
\* response (app.ts:25-26).
AfterLogin(c) == IF kind[c] = "http" THEN "http_ok" ELSE "fetch_send"

\* extractMemberInformation (bot.ts:1023-1165): the list is read off the
\* page. On an error the catch takes a screenshot if page is set
\* (bot.ts:1157-1163): with page null, or when the screenshot comes through,
\* [] is returned and the login goes on; when the screenshot throws as well
\* (the page that failed the extraction is the page it is taken of), the
\* error leaves extractMemberInformation, and navigateToCareCentral and
\* loginToAvaility rethrow it (bot.ts:1015-1018, 294-297).
UiExtract(c) ==
  /\ pc[c] = "ui_extract"
  /\ \/ /\ PageUsable
        /\ LET ms == MapSeq(UiMember, ListOf(portal))
           IN  /\ members' = [members EXCEPT ![c] = ms]
               /\ pc' = [pc EXCEPT ![c] = IF Len(ms) > 0 THEN "ui_email" ELSE AfterLogin(c)]
        /\ UNCHANGED <<lastCheckTime, newReferrals, currentTime, saved, lb, entry, faults>>
     \/ /\ Fault(~PageUsable)
        /\ page = NoBrowser \/ PageUsable
        /\ pc' = [pc EXCEPT ![c] = AfterLogin(c)]
        /\ UNCHANGED <<lastCheckTime, locals>>
     \/ /\ Fault(~PageUsable)
        /\ page # NoBrowser
        /\ Throw(c, "e_login")
  /\ UNCHANGED <<aside, now, session, portal, store, channels, mon>>

\* sendMemberInformationEmail (bot.ts:1168-1201): one email that lists the
\* extracted members is sent, or the failure is logged and swallowed.
UiEmail(c) ==
  /\ pc[c] = "ui_email"
  /\ \/ UNCHANGED faults
     \/ SendEmail(env) = "transport" /\ Fault(FALSE)
  /\ pc' = [pc EXCEPT ![c] = "ui_find"]
  /\ UNCHANGED <<aside, now, lastCheckTime, session, portal, store, channels, mon, locals>>

\* A saveMembersToDatabase that skipped the member it failed on and went on
\* with the rest of the list.
UiSkip(c) ==
  /\ pc' = [pc EXCEPT ![c] = IF Len(members[c]) > 1 THEN "ui_find" ELSE AfterLogin(c)]
  /\ members' = [members EXCEPT ![c] = IF Len(@) > 1 THEN Tail(@) ELSE <<>>]
  /\ saved' = [saved EXCEPT ![c] = NoDoc]
  /\ UNCHANGED <<newReferrals, currentTime, lb, entry>>

\* saveMembersToDatabase gives up (catch at bot.ts:1250) or has run through:
\* loginToAvaility returns true and the cookies are asked for.
UiLeave(c) ==
  /\ pc' = [pc EXCEPT ![c] = AfterLogin(c)]
  /\ members' = [members EXCEPT ![c] = <<>>]
  /\ saved' = [saved EXCEPT ![c] = NoDoc]
  /\ UNCHANGED <<newReferrals, currentTime, lb, entry>>

\* bot.ts:1208: the loop goes to the next member, if there is one.
UiNext(c) ==
  IF Len(members[c]) > 1
  THEN /\ pc' = [pc EXCEPT ![c] = "ui_find"]
       /\ members' = [members EXCEPT ![c] = Tail(@)]
       /\ saved' = [saved EXCEPT ![c] = NoDoc]
       /\ UNCHANGED <<newReferrals, currentTime, lb, entry>>
  ELSE UiLeave(c)

\* bot.ts:1210-1215: Referral.findOne({memberID, memberName}) settles.
UiFind(c) ==
  /\ pc[c] = "ui_find"
  /\ \/ /\ ExistsByName(referrals, Head(members[c]))
        /\ UiNext(c)
        /\ UNCHANGED faults
     \/ /\ ~ExistsByName(referrals, Head(members[c]))
        /\ pc' = [pc EXCEPT ![c] = "ui_create"]
        /\ UNCHANGED <<locals, faults>>
     \/ /\ Fault(FALSE)
        /\ UiLeave(c)
  /\ UNCHANGED <<aside, now, lastCheckTime, session, portal, store, channels, mon>>

\* The document saveMembersToDatabase creates (bot.ts:1219-1226).
UiDoc(member) ==
  [memberID |-> member.memberID, memberName |-> member.memberName,
   requestOn |-> member.requestDate, isNotified |-> TRUE]

\* bot.ts:1219-1228: Referral.create settles.
UiCreate(c) ==
  /\ pc[c] = "ui_create"
  /\ \/ /\ Len(referrals) < MaxDocs
        /\ referrals' = Append(referrals, UiDoc(Head(members[c])))
        /\ saved' = [saved EXCEPT ![c] = Len(referrals) + 1]
        /\ pc' = [pc EXCEPT ![c] = "ui_notif"]
        /\ made' = [made EXCEPT ![c] = @ \cup {"ui"}]
        /\ UNCHANGED <<members, newReferrals, currentTime, lb, startedAt, kind, res, faults>>
     \/ /\ Fault(Len(referrals) >= MaxDocs)
        /\ UiLeave(c)
        /\ UNCHANGED referrals
  /\ UNCHANGED <<aside, now, lastCheckTime, session, portal, notifications, channels, mon>>

\* bot.ts:1231-1238: Notification.create settles.
UiNotif(c) ==
  /\ pc[c] = "ui_notif"
  /\ \/ /\ notifications' = Append(notifications, saved[c])
        /\ pc' = [pc EXCEPT ![c] = "ui_sms"]
        /\ UNCHANGED <<locals, faults>>
     \/ /\ Fault(FALSE)
        /\ UiLeave(c)
        /\ UNCHANGED notifications
  /\ UNCHANGED <<aside, now, lastCheckTime, session, portal, referrals, channels, mon>>

\* bot.ts:1241-1243: sendSMS settles.
UiSms(c) ==
  /\ pc[c] = "ui_sms"
  /\ \/ /\ smsSent' = IF SendSMS(env) = "transport"
                       THEN Bump(smsSent, SubjectOfMember(Head(members[c])))
                       ELSE smsSent
        /\ UiNext(c)
        /\ UNCHANGED faults
     \/ /\ SendSMS(env) = "transport"
        /\ Fault(FALSE)
        /\ UiLeave(c)
        /\ UNCHANGED smsSent
  /\ UNCHANGED <<aside, now, lastCheckTime, session, portal, store, emailsSent, mon>>

\* ---- the API path of checkForNewReferrals -------------------------------
\* bot.ts:1377-1380: the loop is through; the watermark is set.
Advance(c, t) ==
  /\ lastCheckTime' = t
  /\ pc' = [pc EXCEPT ![c] = "ok"]
  /\ Clear(c)
  /\ UNCHANGED <<kind, res>>

\* bot.ts:1314-1316: the next new referral is looked up, or the cycle
\* completes.
Proceed(c, rest, t) ==
  IF rest = <<>>
  THEN Advance(c, t)
  ELSE /\ pc' = [pc EXCEPT ![c] = "api_find"]
       /\ newReferrals' = [newReferrals EXCEPT ![c] = rest]
       /\ currentTime' = [currentTime EXCEPT ![c] = t]
       /\ saved' = [saved EXCEPT ![c] = NoDoc]
       /\ UNCHANGED <<lastCheckTime, members, lb, entry>>

\* bot.ts:1268-1299: the cookies are read off the page and the request is
\* sent; the portal answers with what it lists at this moment.
FetchSend(c) ==
  /\ pc[c] = "fetch_send"
  /\ \/ /\ PageUsable
        /\ newReferrals' = [newReferrals EXCEPT ![c] = MapSeq(ApiReferral, ListOf(portal))]
        /\ pc' = [pc EXCEPT ![c] = "fetch_recv"]
        /\ UNCHANGED <<lastCheckTime, members, currentTime, saved, lb, entry, faults>>
     \/ /\ Fault(~PageUsable)
        /\ Throw(c, "e_fetch")
  /\ UNCHANGED <<aside, now, session, portal, store, channels, mon>>

\* What the 401/403 handler does not do, though its log line announces it:
\* drop browser and page and log in again within the same invocation.
AuthExpiredRetries(c) ==
  /\ browser' = NoBrowser
  /\ page' = NoBrowser
  /\ pc' = [pc EXCEPT ![c] = EnterLogin(NoBrowser, NoBrowser)]
  /\ newReferrals' = [newReferrals EXCEPT ![c] = <<>>]
  /\ UNCHANGED <<live, authed, lastCheckTime, members, currentTime, saved, lb, entry>>

\* closeBrowser up to its await (bot.ts:83-85), entered from the 401/403
\* handler (bot.ts:1385-1390); with no browser it returns at once and the
\* handler rethrows (bot.ts:89-91, 1391-1393).
AuthExpired(c) ==
  IF browser # NoBrowser
  THEN /\ pc' = [pc EXCEPT ![c] = "auth_closing"]
       /\ lb' = [lb EXCEPT ![c] = browser]
       /\ newReferrals' = [newReferrals EXCEPT ![c] = <<>>]
       /\ UNCHANGED <<session, lastCheckTime, members, currentTime, saved, entry>>
  ELSE /\ browser' = NoBrowser
       /\ page' = NoBrowser
       /\ UNCHANGED <<live, authed>>
       /\ Throw(c, "e_auth")

\* What the catch does not do: treat every failed request as a 401/403.
FetchFailedInvalidates(c) ==
  /\ browser' = NoBrowser
  /\ page' = NoBrowser
  /\ UNCHANGED <<live, authed>>
  /\ Throw(c, "e_fetch")

\* bot.ts:1381-1397: axios.post has rejected with something else than a
\* 401/403 (no response, another status): the catch rethrows and leaves
\* browser and page alone.
FetchFailed(c) ==
  /\ Throw(c, "e_fetch")
  /\ UNCHANGED session

\* bot.ts:1299-1312 and 1381-1397: the response arrives. On success the
\* time is taken and the new referrals are filtered out.
FetchRecv(c) ==
  /\ pc[c] = "fetch_recv"
  /\ \/ /\ Proceed(c, FilterNew(newReferrals[c], lastCheckTime), now)
        /\ UNCHANGED <<session, faults>>
     \/ /\ Fault(FALSE)
        /\ AuthExpired(c)
     \/ /\ Fault(FALSE)
        /\ FetchFailed(c)
  /\ UNCHANGED <<aside, now, portal, store, channels, mon>>

\* What the 401/403 handler does not do: clear browser and keep page.
AuthClosedKeepsPage(c) ==
  /\ pc[c] = "auth_closing"
  /\ live' = live \ {lb[c]}
  /\ authed' = authed \ {lb[c]}
  /\ browser' = NoBrowser
  /\ page' = page
  /\ Throw(c, "e_auth")
  /\ UNCHANGED <<now, portal, store, channels, mon, budget>>

\* bot.ts:85-87 and 1391-1393: browser.close() has settled; browser and page
\* are cleared and the error is rethrown.
AuthClosed(c) ==
  /\ pc[c] = "auth_closing"
  /\ live' = live \ {lb[c]}
  /\ authed' = authed \ {lb[c]}
  /\ browser' = NoBrowser
  /\ page' = NoBrowser
  /\ Throw(c, "e_auth")
  /\ UNCHANGED <<now, portal, store, channels, mon, budget>>

\* bot.ts:1321-1326: Referral.findOne({memberID, requestOn}) settles.
ApiFind(c) ==
  /\ pc[c] = "api_find"
  /\ \/ /\ ExistsByKey(referrals, Head(newReferrals[c]))
        /\ Proceed(c, Tail(newReferrals[c]), currentTime[c])
        /\ UNCHANGED faults
     \/ /\ ~ExistsByKey(referrals, Head(newReferrals[c]))
        /\ pc' = [pc EXCEPT ![c] = "api_create"]
        /\ UNCHANGED <<lastCheckTime, locals, faults>>
     \/ /\ Fault(FALSE)
        /\ Throw(c, "e_store")
  /\ UNCHANGED <<aside, now, session, portal, store, channels, mon>>

\* The document checkForNewReferrals creates (bot.ts:1329-1332).
ApiDoc(referral) ==
  [memberID |-> referral.memberID, memberName |-> referral.memberName,
   requestOn |-> referral.requestOn, isNotified |-> FALSE]

\* bot.ts:1329-1333: Referral.create settles.
ApiCreate(c) ==
  /\ pc[c] = "api_create"
  /\ \/ /\ Len(referrals) < MaxDocs
        /\ referrals' = Append(referrals, ApiDoc(Head(newReferrals[c])))
        /\ saved' = [saved EXCEPT ![c] = Len(referrals) + 1]
        /\ pc' = [pc EXCEPT ![c] = "api_notif"]
        /\ made' = [made EXCEPT ![c] = @ \cup {"api"}]
        /\ UNCHANGED <<lastCheckTime, members, newReferrals, currentTime, lb,
                       startedAt, kind, res, faults>>
     \/ /\ Fault(Len(referrals) >= MaxDocs)
        /\ Throw(c, "e_store")
        /\ UNCHANGED referrals
  /\ UNCHANGED <<aside, now, session, portal, notifications, channels, mon>>

\* bot.ts:1337-1343: Notification.create settles.
ApiNotif(c) ==
  /\ pc[c] = "api_notif"
  /\ \/ /\ notifications' = Append(notifications, saved[c])
        /\ pc' = [pc EXCEPT ![c] = "api_email"]
        /\ UNCHANGED <<lastCheckTime, locals, faults>>
     \/ /\ Fault(FALSE)
        /\ Throw(c, "e_store")
        /\ UNCHANGED notifications
  /\ UNCHANGED <<aside, now, session, portal, referrals, channels, mon>>

\* bot.ts:1347-1356: sendEmail settles; it rethrows a transport error
\* (email.ts:71-74) and nothing here catches it.
ApiEmail(c) ==
  /\ pc[c] = "api_email"
  /\ \/ /\ emailsSent' = IF SendEmail(env) = "transport"
                         THEN Bump(emailsSent, SubjectOfReferral(Head(newReferrals[c])))
                         ELSE emailsSent
        /\ pc' = [pc EXCEPT ![c] = "api_sms"]
        /\ UNCHANGED <<lastCheckTime, locals, faults>>
     \/ /\ SendEmail(env) = "transport"
        /\ Fault(FALSE)
        /\ Throw(c, "e_email")
        /\ UNCHANGED emailsSent
  /\ UNCHANGED <<aside, now, session, portal, store, smsSent, mon>>

\* bot.ts:1360-1362: sendSMS settles; it rethrows too (sms.ts:44-47).
ApiSms(c) ==
  /\ pc[c] = "api_sms"
  /\ \/ /\ smsSent' = IF SendSMS(env) = "transport"
                       THEN Bump(smsSent, SubjectOfReferral(Head(newReferrals[c])))
                       ELSE smsSent
        /\ pc' = [pc EXCEPT ![c] = "api_save"]
        /\ UNCHANGED <<lastCheckTime, locals, faults>>
     \/ /\ SendSMS(env) = "transport"
        /\ Fault(FALSE)
        /\ Throw(c, "e_sms")
        /\ UNCHANGED smsSent
  /\ UNCHANGED <<aside, now, session, portal, store, emailsSent, mon>>

\* bot.ts:1366-1372: savedReferral.save() settles with isNotified = true.
ApiSave(c) ==
  /\ pc[c] = "api_save"
  /\ \/ /\ referrals' = [referrals EXCEPT ![saved[c]].isNotified = TRUE]
        /\ Proceed(c, Tail(newReferrals[c]), currentTime[c])
        /\ UNCHANGED faults
     \/ /\ Fault(FALSE)
        /\ Throw(c, "e_store")
        /\ UNCHANGED referrals
  /\ UNCHANGED <<aside, now, session, portal, notifications, channels, mon>>

\* ---- app.ts ---------------------------------------------------------------
\* app.ts:37-47: the database is connected and setupBot is called, its
\* rejection logged.
AppStart ==
  /\ app = "new"
  /\ \E c \in Slots : ~InFlight(c)
  /\ app' = "started"
  /\ BeginSetup(FreeSlot, "startup")
  /\ UNCHANGED <<now, lastCheckTime, session, portal, store, channels, mon,
                 apart, sent, lg, requests, faults>>

\* app.ts:20-23: a POST /start-bot arrives and the handler calls setupBot.
StartBotRequest ==
  /\ requests < MaxRequests
  /\ \E c \in Slots : ~InFlight(c)
  /\ requests' = requests + 1
  /\ BeginSetup(FreeSlot, "http")
  /\ UNCHANGED <<now, lastCheckTime, session, portal, store, channels, mon,
                 apart, sent, lg, app, faults>>

\* What the handler does not do: send 200 and then end up in its catch.
RespondAndFail(c) ==
  /\ pc[c] \in {"http_ok", "http_err"}
  /\ res' = [res EXCEPT ![c] = Append(@, IF pc[c] = "http_ok" THEN 200 ELSE 500)]
  /\ pc' = [pc EXCEPT ![c] = IF pc[c] = "http_ok" THEN "http_err" ELSE "r500"]
  /\ Clear(c)
  /\ UNCHANGED <<now, lastCheckTime, session, portal, store, channels, mon,
                 aside, kind, faults>>

\* app.ts:25-33: loginToAvaility has returned true and 200 is sent, or the
\* catch sends 500. loginToAvaility never returns false (bot.ts:293-298), so
\* the else of app.ts:27-29 is not taken.
Respond(c) ==
  /\ pc[c] \in {"http_ok", "http_err"}
  /\ res' = [res EXCEPT ![c] = Append(@, IF pc[c] = "http_ok" THEN 200 ELSE 500)]
  /\ pc' = [pc EXCEPT ![c] = IF pc[c] = "http_ok" THEN "r200" ELSE "r500"]
  /\ Clear(c)
  /\ UNCHANGED <<now, lastCheckTime, session, portal, store, channels, mon,
                 aside, kind, faults>>

\* ---- the system ---------------------------------------------------------
\* The steps of setupBot and loginToAvaility, whoever called them.
LoginStep(c) ==
  \/ SetupLaunch(c) \/ SetupPage(c) \/ LoginPage(c)
  \/ UiExtract(c) \/ UiEmail(c) \/ UiFind(c) \/ UiCreate(c) \/ UiNotif(c) \/ UiSms(c)

\* The steps of checkForNewReferrals after the login.
CycleStep(c) ==
  \/ FetchSend(c) \/ FetchRecv(c) \/ AuthClosed(c)
  \/ ApiFind(c) \/ ApiCreate(c) \/ ApiNotif(c) \/ ApiEmail(c) \/ ApiSms(c) \/ ApiSave(c)

Step(c) == LoginStep(c) \/ CycleStep(c)

\* The monitor: a process that calls startReferralMonitoring.
Next ==
  \/ Tick
  \/ AddReferral
  \/ StartReferralMonitoring
  \/ ArmTimer
  \/ TimerTick
  \/ \E c \in Slots : Step(c)

Spec == Init /\ [][Next]_vars

\* The server of app.ts: it calls setupBot at start-up and serves POST
\* /start-bot; it never calls startReferralMonitoring or checkForNewReferrals.
AppNext ==
  \/ Tick
  \/ AddReferral
  \/ AppStart
  \/ StartBotRequest
  \/ \E c \in Slots : LoginStep(c) \/ Respond(c)

AppSpec == Init /\ [][AppNext]_vars

\* sendEmail and sendSMS called on their own, under any environment, one
\* call at a time. Of a call of sendSMS, sent keeps what it came to first,
\* the recipients still to be served, the numbers a message has gone to,
\* in the order of the sends, and how the call stands.
SmsRunning == sent # "nothing" /\ sent[1] = "sms" /\ sent[5] = "running"

CallSendEmail ==
  /\ ~SmsRunning
  /\ sent' = <<"email", SendEmail(env)>>
  /\ UNCHANGED <<now, lastCheckTime, session, portal, store, channels, mon, pc,
                 locals, apart, lg, app, requests, faults>>

\* sms.ts:11-29: the early returns, or the client is made and the loop over
\* toNumbers is entered.
CallSendSMS ==
  /\ ~SmsRunning
  /\ sent' = IF SendSMS(env) = "transport"
             THEN <<"sms", "transport", ToNumbers(env), <<>>, "running">>
             ELSE <<"sms", "noop", <<>>, <<>>, "returned">>
  /\ UNCHANGED <<now, lastCheckTime, session, portal, store, channels, mon, pc,
                 locals, apart, lg, app, requests, faults>>

\* A loop that logged the failed send and went on with the next recipient.
SmsSettleGoesOn ==
  /\ SmsRunning
  /\ sent[3] # <<>>
  /\ \/ sent' = [sent EXCEPT ![3] = Tail(@), ![4] = Append(@, Trim(Head(sent[3])))]
     \/ sent' = [sent EXCEPT ![3] = Tail(@)]
  /\ UNCHANGED <<now, lastCheckTime, session, portal, store, channels, mon, pc,
                 locals, apart, lg, app, requests, faults>>

\* sms.ts:31-47: client.messages.create for the recipient at hand settles:
\* the message has gone to toNumber.trim() and the loop goes to the next
\* recipient, or the rejection is caught, logged and rethrown.
SmsSettle ==
  /\ SmsRunning
  /\ sent[3] # <<>>
  /\ \/ sent' = [sent EXCEPT ![3] = Tail(@), ![4] = Append(@, Trim(Head(sent[3])))]
     \/ sent' = [sent EXCEPT ![5] = "thrown"]
  /\ UNCHANGED <<now, lastCheckTime, session, portal, store, channels, mon, pc,
                 locals, apart, lg, app, requests, faults>>

\* sms.ts:43: the loop is through and sendSMS returns.
SmsReturn ==
  /\ SmsRunning
  /\ sent[3] = <<>>
  /\ sent' = [sent EXCEPT ![5] = "returned"]
  /\ UNCHANGED <<now, lastCheckTime, session, portal, store, channels, mon, pc,
                 locals, apart, lg, app, requests, faults>>

ChannelInit == \E e \in Envs : InitWith(FALSE, 0, e)

ChannelNext == CallSendEmail \/ CallSendSMS \/ SmsSettle \/ SmsReturn

ChannelSpec == ChannelInit /\ [][ChannelNext]_vars

\* Runs in which only MaxFaults external calls fail of the environment's
\* doing, the event loop runs every continuation that is ready, and the
\* timer keeps firing.
FairSpec ==
  /\ InitWith(TRUE, MaxFaults, Configured)
  /\ [][Next]_vars
  /\ WF_vars(StartReferralMonitoring)
  /\ WF_vars(ArmTimer)
  /\ WF_vars(TimerTick)
  /\ \A c \in Slots : WF_vars(Step(c))

\* The steps whose continuation is sure to become ready: every step but the
\* arrival of the answer to axios.post, which is called without a timeout
\* (bot.ts:1279-1297) and so waits for as long as the portal stays silent.
Bounded(c) == pc[c] # "fetch_recv" /\ Step(c)

\* Runs as in FairSpec, but the portal's API need not ever answer.
SilentSpec ==
  /\ InitWith(TRUE, MaxFaults, Configured)
  /\ [][Next]_vars
  /\ WF_vars(StartReferralMonitoring)
  /\ WF_vars(ArmTimer)
  /\ WF_vars(TimerTick)
  /\ \A c \in Slots : WF_vars(Bounded(c))

\* ---- inside loginToAvaility: status detection and handle2FA -------------
\* Everything but lg.
world == <<now, lastCheckTime, session, portal, store, channels, mon, pc, locals,
           apart, sent, app, requests, faults>>

\* bot.ts:272: currentUrl.includes("login") || currentUrl.includes("authenticate")
OnLoginPath(url) == Includes(url, "login") \/ Includes(url, "authenticate")

\* bot.ts:259-280: what loginToAvaility does with what it has found on the
\* page: is2FARequired, else isLoggedIn, else the URL.
Decide(twofa, logged, url) ==
  IF twofa THEN "options"
  ELSE IF logged THEN "accepted"
  ELSE IF OnLoginPath(url) THEN "failed"
  ELSE "accepted"

\* What the status detection does not do: give up when the wait has timed out.
DetectStatusStrict(w, t, l, u) ==
  /\ lg.pc = "submitted"
  /\ lg' = [lg EXCEPT !.probed = TRUE, !.wait = w, !.twofa = t, !.logged = l, !.url = u,
                       !.pc = IF w THEN Decide(t, l, u) ELSE "failed",
                       !.err = IF w /\ Decide(t, l, u) # "failed" THEN NoError ELSE StillOnLogin]
  /\ UNCHANGED world

\* bot.ts:225-281: the race of the four waits resolves (w) or times out, the
\* timeout is only logged, the page is asked for the dashboard or cookie
\* heading (l) and for a second-factor form or option (t), and the URL (u)
\* is read if neither is there.
DetectStatus(w, t, l, u) ==
  /\ lg.pc = "submitted"
  /\ lg' = [lg EXCEPT !.probed = TRUE, !.wait = w, !.twofa = t, !.logged = l, !.url = u,
                       !.pc = Decide(t, l, u),
                       !.err = IF Decide(t, l, u) = "failed" THEN StillOnLogin ELSE NoError]
  /\ UNCHANGED world

\* bot.ts:240-257: page.evaluate throws (the page is gone).
DetectThrows ==
  /\ lg.pc = "submitted"
  /\ lg' = [lg EXCEPT !.pc = "failed", !.err = PageError]
  /\ UNCHANGED world

\* bot.ts:305: the radio options become visible within the wait, or the
\* wait throws.
WaitOptions(v) ==
  /\ lg.pc = "options"
  /\ lg' = [lg EXCEPT !.pc = IF v THEN Strategies[1] ELSE "failed",
                       !.err = IF v THEN NoError ELSE PageError]
  /\ UNCHANGED world

\* What handle2FA does not do: let the exception of an approach end the
\* selection.
AfterStrategyAborting(n, r) ==
  IF r = "ok" THEN "continue"
  ELSE IF r = "throws" THEN "failed"
  ELSE IF n < Len(Strategies) THEN Strategies[n + 1]
  ELSE "failed"

\* bot.ts:316-367: an approach that has set authenticatorOptionSelected ends
\* the selection; otherwise, whether it found nothing or threw, the next
\* approach runs, and after the last the selection error is thrown.
AfterStrategy(n, r) ==
  IF r = "ok" THEN "continue"
  ELSE IF n < Len(Strategies) THEN Strategies[n + 1]
  ELSE "failed"

\* bot.ts:316-362: approach n runs and meets r.
TryStrategy(n, r) ==
  /\ lg.pc = Strategies[n]
  /\ lg' = [lg EXCEPT !.tried = Append(@, <<Strategies[n], r>>),
                       !.pc = AfterStrategy(n, r),
                       !.err = IF AfterStrategy(n, r) = "failed" THEN SelectionFailed ELSE NoError]
  /\ UNCHANGED world

\* bot.ts:369-460: the Continue button, the code form, the code and its
\* submission: all come through, or one of them throws.
EnterCode(v) ==
  /\ lg.pc = "continue"
  /\ lg' = [lg EXCEPT !.pc = IF v THEN "verify" ELSE "failed",
                       !.err = IF v THEN NoError ELSE PageError]
  /\ UNCHANGED world

\* bot.ts:463-515: the error handle2FA ends with, given the marks on the
\* page and the banner. The error thrown for a banner (bot.ts:485) is thrown
\* inside the try whose catch only logs (bot.ts:492-495); what decides is
\* the look for a dashboard element or the cookie heading (bot.ts:497-513).
VerifyOutcome(marks, b) ==
  IF marks # {} THEN NoError ELSE VerificationFailed

\* bot.ts:462-518: the page after the code was submitted shows the marks S
\* and the banner b (or none), or nothing at all within the wait.
Verify(S, b) ==
  /\ lg.pc = "verify"
  /\ lg' = [lg EXCEPT !.shows = S, !.banner = b,
                       !.pc = IF VerifyOutcome(S, b) = NoError THEN "accepted" ELSE "failed",
                       !.err = VerifyOutcome(S, b)]
  /\ UNCHANGED world

\* bot.ts:283-291: the session is accepted; handleCookieConsent and
\* handlePopups swallow their errors, and navigateToCareCentral starts at
\* its first step.
StartNavigation ==
  /\ lg.pc = "accepted"
  /\ lg' = [lg EXCEPT !.pc = "nav", !.step = 1, !.confirmed = 0]
  /\ UNCHANGED world

\* navigateToCareCentral (bot.ts:611-1020): the step that runs comes
\* through and the next one starts, or loginToAvaility returns true after
\* the last (bot.ts:293); or the step throws, and navigateToCareCentral and
\* loginToAvaility rethrow (bot.ts:1015-1018, 294-297).
NavStep(v) ==
  /\ lg.pc = "nav"
  /\ lg' = IF v
           THEN [lg EXCEPT !.confirmed = lg.step,
                           !.step = IF lg.step < Len(NavSteps) THEN lg.step + 1 ELSE 0,
                           !.pc = IF lg.step < Len(NavSteps) THEN "nav" ELSE "in"]
           ELSE [lg EXCEPT !.pc = "failed", !.step = 0, !.err = NavigationFailed]
  /\ UNCHANGED world

\* bot.ts:1261, 211-222: the next cycle calls loginToAvaility again after a
\* failure: it opens the login page and submits the credentials, whatever
\* the earlier call had got through.
Retry ==
  /\ lg.pc = "failed"
  /\ lg.attempt < MaxAttempts
  /\ lg' = [Submitted EXCEPT !.attempt = lg.attempt + 1, !.confirmed = lg.confirmed]
  /\ UNCHANGED world

LoginNext ==
  \/ \E w, t, l \in BOOLEAN, u \in Urls : DetectStatus(w, t, l, u)
  \/ DetectThrows
  \/ \E v \in BOOLEAN : WaitOptions(v)
  \/ \E n \in 1..Len(Strategies), r \in Found : TryStrategy(n, r)
  \/ \E v \in BOOLEAN : EnterCode(v)
  \/ \E S \in SUBSET Marks, b \in Texts \cup {NoBanner} : Verify(S, b)
  \/ StartNavigation
  \/ \E v \in BOOLEAN : NavStep(v)
  \/ Retry

LoginSpec == Init /\ [][LoginNext]_vars

\* ---- retryOperation (bot.ts:57-72) --------------------------------------
\* The errors an operation can reject with.
Errors == {"timeout", "detached", "refused"}

\* bot.ts:58: the loop condition.
InLoop(i, retries) == i < retries

\* A loop that waits and goes round after the last attempt too.
AgainAlways(i, retries) == i < retries

\* bot.ts:64: after a failed attempt, whether another one follows.
Again(i, retries) == i < retries - 1

everything == <<now, lastCheckTime, session, portal, store, channels, mon, pc, locals,
                fixed, sent, lg, app, requests, faults>>

\* bot.ts:57-60: retryOperation is called; it invokes the operation if the
\* loop is entered and returns undefined if it is not.
RetryCall(n) ==
  /\ rt.pc \in {"idle", "returned", "thrown"}
  /\ rt' = [NotCalled EXCEPT !.retries = n,
                             !.pc = IF InLoop(0, n) THEN "calling" ELSE "returned"]
  /\ UNCHANGED everything

\* bot.ts:59-69: the invocation of the operation settles. Fulfilled, the
\* function returns; rejected, the error is logged and the function goes to
\* the delay or throws the error.
RetrySettle(r) ==
  /\ rt.pc = "calling"
  /\ rt' = IF r = "ok"
           THEN [rt EXCEPT !.calls = Append(@, r), !.pc = "returned"]
           ELSE IF Again(rt.i, rt.retries)
           THEN [rt EXCEPT !.calls = Append(@, r), !.pc = "waiting"]
           ELSE [rt EXCEPT !.calls = Append(@, r), !.pc = "thrown", !.err = r]
  /\ UNCHANGED everything

\* bot.ts:66, 58: the delay is over; i++ and the loop condition.
RetryDelay ==
  /\ rt.pc = "waiting"
  /\ rt' = [rt EXCEPT !.i = rt.i + 1,
                      !.pc = IF InLoop(rt.i + 1, rt.retries) THEN "calling" ELSE "returned"]
  /\ UNCHANGED everything

RetryNext ==
  \/ \E n \in 0..MaxRetries : RetryCall(n)
  \/ \E r \in Errors \cup {"ok"} : RetrySettle(r)
  \/ RetryDelay

RetrySpec == Init /\ [][RetryNext]_vars

\* ---- the claims ---------------------------------------------------------
Running == {c \in Slots : InFlight(c) /\ kind[c] = "cycle"}

\* C1: the Referral collection never holds two documents with the same
\* natural key (memberID, requestOn).
C1_UniqueNaturalKey ==
  \A i, j \in 1..Len(referrals) :
    (referrals[i].memberID = referrals[j].memberID
       /\ referrals[i].requestOn = referrals[j].requestOn) => i = j

\* C2: every assignment to lastCheckTime stores a value that is not smaller
\* than the one it replaces.
C2_WatermarkMonotone == [][lastCheckTime' >= lastCheckTime]_vars

\* C3: at most one invocation of checkForNewReferrals is in flight.
C3_NoOverlap == Cardinality(Running) <= 1

\* C4: a cycle that fails leaves the watermark alone: lastCheckTime changes
\* only in the step that completes a cycle successfully, so no step of a
\* cycle that ends in a login, authorization, fetch, store or channel
\* failure assigns it.
C4_FailedCycleKeepsWatermark ==
  [][lastCheckTime' # lastCheckTime =>
       \E c \in Slots : InFlight(c) /\ pc'[c] = "ok"]_vars

\* C4 witness: one cycle was rejected with 401/403 and another failed in the
\* store while persisting, with a document already created.
C4_Witness ==
  /\ \E c, d \in Slots : pc[c] = "e_auth" /\ pc[d] = "e_store"
  /\ Len(referrals) > 0

\* C5: the watermark a successful cycle stores is the time at which that
\* cycle began.
C5_WatermarkIsCycleStart ==
  [][\A c \in Slots :
       (InFlight(c) /\ pc'[c] = "ok") => lastCheckTime' = startedAt[c]]_vars

\* C6 (scenario D): a cycle in which sendEmail threw for a new record ends
\* with that record's NotificationRecord created and isNotified = true.
C6_ScenarioD ==
  [][\A c \in Slots :
       (pc[c] = "api_email" /\ ~InFlight(c)')
         => /\ \E n \in 1..Len(notifications') : notifications'[n] = saved[c]
            /\ referrals'[saved[c]].isNotified]_vars

\* C7: after sendEmail has settled for a record, with or without an error,
\* sendSMS is called for that record: the cycle is not aborted.
C7_EmailFailureDoesNotAbort ==
  [][\A c \in Slots :
       (pc[c] = "api_email" /\ pc'[c] # "api_email") => pc'[c] = "api_sms"]_vars

Persisted(k) == \E i \in 1..Len(referrals) : SubjectOfDoc(referrals[i]) = k

\* A notification about logical record k has been attempted: sendEmail
\* (bot.ts:1347) or sendSMS (bot.ts:1241) is called as soon as
\* Notification.create has resolved for one of its documents, and not before.
Attempted(k) ==
  \E n \in 1..Len(notifications) : SubjectOfDoc(referrals[notifications[n]]) = k

HasRecipient(list) == \E i \in 1..Len(list) : Trim(list[i]) # <<>>
EmailHasCredentials == Truthy(env.EMAIL_USER) /\ Truthy(env.EMAIL_PASS)
SmsHasCredentials ==
  Truthy(env.TWILIO_SID) /\ Truthy(env.TWILIO_AUTH_TOKEN) /\ Truthy(env.TWILIO_PHONE_NUMBER)

\* C11: a channel without a recipient or without credentials does nothing:
\* its send returns without calling the transport.
C11_UnconfiguredChannelIsNoOp ==
  /\ (sent # "nothing" /\ sent[1] = "email"
        /\ ~(HasRecipient(EmailRecipients(env)) /\ EmailHasCredentials))
       => sent[2] = "noop"
  /\ (sent # "nothing" /\ sent[1] = "sms"
        /\ ~(HasRecipient(ToNumbers(env)) /\ SmsHasCredentials))
       => sent[2] = "noop"

\* C10: no logical record is the subject of more than one email or of more
\* than one SMS.
C10_NotifiedOnce ==
  \A k \in Keys : emailsSent[k] <= 1 /\ smsSent[k] <= 1

\* C12: at most one browser process is launched and not yet closed.
C12_OneLiveSession == Cardinality(live) <= 1

\* The invocation is suspended in a call that drives the shared page or that
\* will assign browser or page when it settles (bot.ts:85-87, 96, 114, 211,
\* 1023-1135, 74-81).
Driving(c) ==
  pc[c] \in {"setup_launch", "setup_page", "boot_launch", "boot_page", "login_page",
             "ui_extract", "fetch_send", "auth_closing"}

\* C13: no two invocations drive the page or assign browser and page at the
\* same time.
C13_ExclusiveAgent == Cardinality({c \in Slots : Driving(c)}) <= 1

\* Document i has just been created and its creator is still waiting for
\* Notification.create (bot.ts:1231, 1337).
BeingCreated(i) == \E c \in Slots : saved[c] = i /\ pc[c] \in {"ui_notif", "api_notif"}

NotificationsOf(i) == {n \in 1..Len(notifications) : notifications[n] = i}

\* C14: every NotificationRecord references a persisted document, every
\* persisted document whose creating step is over is referenced by exactly
\* one NotificationRecord, and no step changes or removes an existing
\* NotificationRecord.
C14_NotificationPerRecord ==
  [][/\ \A n \in 1..Len(notifications') : notifications'[n] \in 1..Len(referrals')
     /\ \A i \in 1..Len(referrals') :
          ~BeingCreated(i)' => Cardinality(NotificationsOf(i)') = 1
     /\ Len(notifications') >= Len(notifications)
     /\ SubSeq(notifications', 1, Len(notifications)) = notifications]_vars

\* How an invocation of checkForNewReferrals ends when it throws.
Failures == {"e_login", "e_auth", "e_fetch", "e_store", "e_email", "e_sms"}

\* A check has failed and nothing is in flight.
FailedAndQuiet ==
  /\ \E c \in Slots : pc[c] \in Failures
  /\ \A c \in Slots : ~InFlight(c)

\* C15: an error of a check, initial or scheduled, does not end the loop:
\* whenever a check has failed and nothing is running, a later timer tick
\* starts checkForNewReferrals again.
C15_LoopSurvivesErrors == FailedAndQuiet ~> (Running # {})

\* C15 witness: the interval is armed, the last check was rejected by the
\* portal and nothing is running.
C15_Witness ==
  /\ mon = "armed"
  /\ \E c \in Slots : pc[c] = "e_auth"
  /\ \A c \in Slots : ~InFlight(c)

\* C16: a cycle that completes without having created a document on the API
\* path (nothing was new, or every new candidate was found in the store) has
\* created no document at all, and its last step assigns lastCheckTime.
C16_NothingNewStillAdvances ==
  [][\A c \in Slots :
       (kind[c] = "cycle" /\ InFlight(c) /\ pc'[c] = "ok" /\ "api" \notin made[c])
         => /\ made[c] = {}
            /\ lastCheckTime' = IF pc[c] = "fetch_recv" THEN now ELSE currentTime[c]]_vars

\* The path that created a document: the page path stores the referral
\* number as memberID (bot.ts:1128), the API path the member's id.
FromPage(doc) == doc.memberID[1] = "referral"
FromApi(doc) == doc.memberID[1] = "member"

\* C17: a logical record stored by one extraction path is not stored again
\* by the other.
C17_SymmetricDedup ==
  \A i, j \in 1..Len(referrals) :
    (FromPage(referrals[i]) /\ FromApi(referrals[j]))
      => SubjectOfDoc(referrals[i]) # SubjectOfDoc(referrals[j])

\* The steps from which loginToAvaility returns true.
LoginReturns == {"ui_extract", "ui_find", "ui_create", "ui_notif", "ui_sms"}

\* C18: a POST /start-bot gets exactly one response: none while the handler
\* runs, then 200 if setupBot and loginToAvaility ran through, else 500.
C18_OneResponse ==
  [][\A c \in Slots :
       /\ kind'[c] = "http"
            => \/ InFlight(c)' /\ res'[c] = <<>>
               \/ pc'[c] = "r200" /\ res'[c] = <<200>>
               \/ pc'[c] = "r500" /\ res'[c] = <<500>>
       /\ (kind[c] = "http" /\ pc'[c] = "r200")
            => pc[c] \in {"http_ok", "r200"}
       /\ (kind[c] = "http" /\ pc[c] # "http_ok" /\ pc'[c] = "http_ok")
            => pc[c] \in LoginReturns]_vars

\* C18 witness: one request was answered 200 and another 500.
C18_Witness ==
  \E c, d \in Slots : pc[c] = "r200" /\ pc[d] = "r500" /\ res[c] = <<200>> /\ res[d] = <<500>>

\* The part of checkForNewReferrals an invocation is in: loginToAvaility
\* (bot.ts:1261), the request about to be sent (bot.ts:1279), the request
\* sent and its answer or its 401/403 being handled, the rest.
LoginStage ==
  {"setup_launch", "setup_page", "login_page", "ui_extract", "ui_email",
   "ui_find", "ui_create", "ui_notif", "ui_sms"}
Stage(p) ==
  IF p \in LoginStage THEN 1
  ELSE IF p = "fetch_send" THEN 2
  ELSE IF p \in {"fetch_recv", "auth_closing"} THEN 3
  ELSE IF p \in Ended THEN 5
  ELSE 4

\* C20: an invocation of checkForNewReferrals never goes back: it logs in
\* once, sends one request, and a 401/403 ends it with the error; a check
\* starts only from the initial call or from the timer callback.
C20_NoRetryInCycle ==
  [][\A c \in Slots :
       /\ (kind[c] = "cycle" /\ InFlight(c))
            => /\ Stage(pc'[c]) >= Stage(pc[c])
               /\ pc[c] = "fetch_send" => (pc'[c] = pc[c] \/ Stage(pc'[c]) > Stage(pc[c]))
               /\ pc[c] = "auth_closing" => pc'[c] \in {"auth_closing", "e_auth"}
       /\ (kind'[c] = "cycle" /\ ~InFlight(c) /\ InFlight(c)')
            => /\ pc'[c] \in LoginStage
               /\ \/ mon = "off" /\ mon' = "initial"
                  \/ mon = "armed" /\ mon' = "armed"]_vars

\* C20 witness: one check has ended on a 401/403 and the timer has started
\* another, which is logging in.
C20_Witness ==
  \E c, d \in Slots :
    /\ pc[c] = "e_auth"
    /\ kind[d] = "cycle" /\ pc[d] \in LoginStage
    /\ mon = "armed"

\* An invocation has stored document i and has not yet come through the
\* creation of its NotificationRecord and its sends (bot.ts:1231-1243,
\* 1337-1362).
Undispatched(i) ==
  \E c \in Slots :
    saved[c] = i /\ pc[c] \in {"ui_notif", "ui_sms", "api_notif", "api_email", "api_sms"}

\* C21: a stored document carries isNotified only once its NotificationRecord
\* exists and the sends for it are through, whichever path stored it.
C21_NotifiedAfterDispatch ==
  \A i \in 1..Len(referrals) :
    referrals[i].isNotified => (NotificationsOf(i) # {} /\ ~Undispatched(i))

\* The steps of the loop over the new referrals (bot.ts:1316-1372).
ApiStage == {"api_find", "api_create", "api_notif", "api_email", "api_sms", "api_save"}

\* C22: the loop of the API path is handed exactly the fetched referrals
\* requested strictly after lastCheckTime, in their order; it stores only the
\* referral it has just looked up, drops a referral only on going to look up
\* the next, and completes only when none is left.
C22_NewSubsetIsStrict ==
  [][\A c \in Slots :
       LET after == SelectSeq(newReferrals[c], LAMBDA r : r.requestOn > lastCheckTime)
       IN  /\ (pc[c] = "fetch_recv" /\ pc'[c] = "api_find") => newReferrals'[c] = after
           /\ (pc[c] = "fetch_recv" /\ pc'[c] = "ok") => after = <<>>
           /\ (pc[c] = "api_create" /\ pc'[c] = "api_notif")
                => LET doc == referrals'[Len(referrals')]
                   IN  /\ Len(referrals') = Len(referrals) + 1
                       /\ doc.memberID = Head(newReferrals[c]).memberID
                       /\ doc.requestOn = Head(newReferrals[c]).requestOn
           /\ (pc[c] \in ApiStage /\ pc'[c] \in ApiStage /\ newReferrals'[c] # newReferrals[c])
                => /\ newReferrals'[c] = Tail(newReferrals[c])
                   /\ pc[c] \in {"api_find", "api_save"}
                   /\ pc'[c] = "api_find"
           /\ (pc[c] \in ApiStage /\ pc'[c] = "ok") => Len(newReferrals[c]) = 1]_vars

\* C22 witness: the loop holds a new referral while the portal lists an
\* older one that the filter has left out.
C22_Witness ==
  \E c \in Slots :
    /\ pc[c] = "api_find"
    /\ \E r \in portal :
         /\ r.requestOn < Head(newReferrals[c]).requestOn
         /\ \A j \in 1..Len(newReferrals[c]) : newReferrals[c][j].requestOn # r.requestOn

\* The session is authenticated as far as the process can know: browser and
\* page are set and the last login on that page got through.
Authenticated == browser # NoBrowser /\ page # NoBrowser /\ page \in authed

\* C23: a cycle that begins with an authenticated session goes to the
\* request without opening the login page or submitting the credentials.
C23_LoginOnlyWhenNeeded ==
  [][\A c \in Slots :
       (~InFlight(c) /\ InFlight(c)' /\ kind'[c] = "cycle" /\ Authenticated)
         => pc'[c] = "fetch_send"]_vars

\* C24: a request that fails otherwise than with 401/403 leaves browser,
\* page and the running browsers as they are; a step of an invocation closes
\* a browser or clears browser or page only while handling a 401/403.
C24_OnlyAuthFailureInvalidates ==
  [][\A c \in Slots :
       /\ (pc[c] \in {"fetch_send", "fetch_recv"} /\ pc'[c] = "e_fetch")
            => (browser' = browser /\ page' = page /\ live' = live)
       /\ (pc'[c] # pc[c]
             /\ \/ live' # live /\ live' \subseteq live
                \/ browser # NoBrowser /\ browser' = NoBrowser
                \/ page # NoBrowser /\ page' = NoBrowser)
            => (pc[c] \in {"fetch_recv", "auth_closing"} /\ pc'[c] \in {"auth_closing", "e_auth"})]_vars

\* C24 witness: a request has failed otherwise than with 401/403 and the
\* session is as it was: browser and page set, the browser running.
C24_Witness ==
  \E c \in Slots :
    pc[c] = "e_fetch" /\ browser # NoBrowser /\ page = browser /\ browser \in live

\* The approaches tried so far have all not selected the option.
NoneSelected(n) == \A i \in 1..n : lg.tried[i][2] # "ok"

C26_BannerRejects ==
  [][(lg.pc = "verify" /\ lg'.pc # "verify" /\ lg'.banner # NoBanner)
       => (lg'.pc = "failed" /\ lg'.err = Rejected(lg'.banner))]_vars

\* C27: after the code was submitted the session is accepted when a
\* dashboard mark shows, when the cookie heading shows, and when no error
\* banner shows within the wait.
C27_ThreeWaysToSuccess ==
  [][(lg.pc = "verify" /\ lg'.pc # "verify"
        /\ ("dashboard" \in lg'.shows \/ "cookie" \in lg'.shows \/ lg'.banner = NoBanner))
       => lg'.pc = "accepted"]_vars

InSetup == {"setup_launch", "setup_page", "boot_launch", "boot_page"}

\* C28: when setupBot throws, at the launch or at the page, browser and
\* page are both null and the browser it launched is not running.
C28_FailedSetupIsClosed ==
  [][\A c \in Slots :
       (pc[c] \in InSetup /\ pc'[c] \in {"e_login", "http_err"})
         => (browser' = NoBrowser /\ page' = NoBrowser /\ lb[c] \notin live')]_vars

\* C30: after a step of the navigation has failed, the next attempt takes
\* the navigation up at the step after the last confirmed one, without
\* logging in or going through the confirmed steps again.
C30_NavigationResumes ==
  [][(lg.pc = "failed" /\ lg.err = NavigationFailed /\ lg'.attempt > lg.attempt)
       => (lg'.pc = "nav" /\ lg'.step = lg.confirmed + 1)]_vars

\* C31: every invocation of checkForNewReferrals ends, well or with an
\* error, however long an external party stays silent.
C31_CycleTerminates ==
  \A c \in Slots : (kind[c] = "cycle" /\ InFlight(c)) ~> ~InFlight(c)

\* C32: page is set only while browser is set.
C32_PageHasBrowser == page # NoBrowser => browser # NoBrowser

\* The steps of the page path inside loginToAvaility (bot.ts:1014-1253).
UiStage == {"ui_extract", "ui_email", "ui_find", "ui_create", "ui_notif", "ui_sms"}

\* C33: no failure on the page path ends the login or the cycle: from each
\* of its steps the invocation goes on within the page path or on to what
\* follows a login that returned true.
C33_PagePathNeverAborts ==
  [][\A c \in Slots :
       pc[c] \in UiStage => pc'[c] \in UiStage \cup {"fetch_send", "http_ok"}]_vars

\* The steps of saveMembersToDatabase (bot.ts:1204-1253).
SaveStage == {"ui_find", "ui_create", "ui_notif", "ui_sms"}

\* Every record of the store before the step is a record of the same member
\* after it.
RecordsKept ==
  /\ Len(referrals') >= Len(referrals)
  /\ \A i \in 1..Len(referrals) :
       /\ referrals'[i].memberID = referrals[i].memberID
       /\ referrals'[i].memberName = referrals[i].memberName
  /\ Len(notifications') >= Len(notifications)
  /\ \A i \in 1..Len(notifications) : notifications'[i] = notifications[i]

\* C34: saveMembersToDatabase takes the members in input order and stops at
\* the first failure of the store or of the SMS: a step of it keeps every
\* record there is, works on the head of what is left of the list and
\* leaves the list alone, drops its head or ends the run; a record it adds
\* is the head's; and a step that fails adds no record and no SMS and ends
\* the run with the rest of the list untouched.
C34_SaveStopsAtFirstFailure ==
  [][\A c \in Slots :
       (pc[c] \in SaveStage /\ <<pc'[c], members'[c]>> # <<pc[c], members[c]>>) =>
          /\ RecordsKept
          /\ members'[c] \in {members[c], Tail(members[c]), <<>>}
          /\ pc'[c] \in SaveStage => members'[c] # <<>>
          /\ referrals' # referrals =>
               referrals' = Append(referrals, UiDoc(Head(members[c])))
          /\ faults' # faults =>
               /\ pc'[c] \notin UiStage
               /\ members'[c] = <<>>
               /\ referrals' = referrals
               /\ notifications' = notifications
               /\ smsSent' = smsSent]_vars

\* A run that created the record of its first member, failed on the
\* notification and is over, the second member of the list never stored.
C34_Witness ==
  \E c \in Slots :
    /\ pc[c] = "fetch_send"
    /\ "ui" \in made[c]
    /\ limited /\ faults = 0
    /\ Len(ListOf(portal)) = 2
    /\ Len(referrals) = 1
    /\ notifications = <<>>

\* C35: startReferralMonitoring arms the timer once, and only after its
\* initial check has settled: before the timer is armed no second cycle is
\* begun, the step that arms it is taken from the awaited initial check
\* with no cycle in flight, and an armed timer stays the one armed timer.
C35_InitialCheckBeforeTimer ==
  [][/\ mon # "armed" =>
          /\ Cardinality(Running') <= 1
          /\ Running # {} => mon' # "armed"
     /\ (mon # "armed" /\ mon' = "armed") => mon = "initial"
     /\ mon = "armed" => mon' = "armed"]_vars

\* The timer has been armed after an initial check that failed, and no
\* interval has elapsed yet.
C35_Witness ==
  /\ mon = "armed"
  /\ now = 0
  /\ \E c \in Slots : kind[c] = "cycle" /\ pc[c] = "e_login"
  /\ Running = {}

\* C36: sendSMS serves the recipients one after the other in list order and
\* stops at the first failed send, which it rethrows: at every point of a
\* call the messages sent are, in order and one each, those to the
\* recipients served so far, no recipient skipped; a call that has thrown
\* has left the failing recipient and those after it without a message and
\* sends no more; a call that returned after sending has served them all.
C36_SmsStopsAtFirstFailure ==
  (sent # "nothing" /\ sent[1] = "sms") =>
    LET to == ToNumbers(env)
        done == sent[4]
    IN  /\ Len(done) + Len(sent[3]) = IF sent[2] = "transport" THEN Len(to) ELSE 0
        /\ \A i \in 1..Len(done) : done[i] = Trim(to[i])
        /\ \A i \in 1..Len(sent[3]) : sent[3][i] = to[Len(done) + i]
        /\ sent[5] = "thrown" => Len(done) < Len(to) /\ ~ENABLED SmsSettle
        /\ sent[5] = "returned" => sent[3] = <<>>

\* A call over three recipients that has thrown on the second: the first
\* has the message, the third has none.
C36_Witness ==
  /\ sent # "nothing" /\ sent[1] = "sms"
  /\ Len(ToNumbers(env)) = 3
  /\ sent[5] = "thrown"
  /\ Len(sent[4]) = 1

\* C37: retryOperation invokes the operation at most retries times, never
\* again after an invocation that succeeded, returns right after the first
\* success, and when retries invocations have all failed throws the error
\* of the last of them.
C37_RetryBounded ==
  LET n == Len(rt.calls)
  IN  /\ n <= rt.retries
      /\ \A k \in 1..(n - 1) : rt.calls[k] # "ok"
      /\ (n > 0 /\ rt.calls[n] = "ok") => rt.pc = "returned"
      /\ (rt.pc = "returned" /\ rt.retries > 0) => (n > 0 /\ rt.calls[n] = "ok")
      /\ (n > 0 /\ n = rt.retries /\ rt.calls[n] # "ok") =>
            (rt.pc = "thrown" /\ rt.err = rt.calls[n])
      /\ rt.pc = "thrown" => (n = rt.retries /\ n > 0 /\ rt.err = rt.calls[n])

\* Three invocations of three have failed, each with another error, and
\* the third error is the one thrown.
C37_Witness ==
  /\ rt.pc = "thrown"
  /\ rt.retries = 3
  /\ rt.calls = <<"timeout", "detached", "refused">>
  /\ rt.err = "refused"

====
